---- MODULE Spec2Model ----
(***************************************************************************)
(* Gate node of the entry-security appliance (receiver.ino): the ESP-NOW   *)
(* receive callback, the two capacity-one FreeRTOS queues, the linked-list *)
(* employee registry, the Identification Task (checkID), the Door State    *)
(* Machine (Task_DoorController) and the Actuator Task (Task_Door).        *)
(*                                                                         *)
(* Tasks are interleaved at their accesses to shared objects (RecvQueue,   *)
(* DoorQueue, Remote_Door); code between two such accesses touches only    *)
(* task-private data and is one atomic step.  vTaskDelay is a yield.       *)
(***************************************************************************)
EXTENDS Integers, Sequences, FiniteSets, TLC

(* ------------------------------ bounds --------------------------------- *)
NumUIDs == 2        \* distinct credential UIDs that can be scanned
MaxNodes == 2       \* heap cells malloc can hand out for Employee nodes
MaxEvents == 3      \* invocations of the receive callback that are explored

UIDs == 1..NumUIDs
Addrs == 1..MaxNodes
\* The registry taken alone is explored one UID and one cell further, so that a
\* chain has a head, a middle and a tail.
RegistryUIDs == 1..(NumUIDs + 1)
RegistryAddrs == 1..(MaxNodes + 1)

(* ------------------------- program constants --------------------------- *)
NULL == 0
OPEN == "OPEN"
CLOSE == "CLOSE"
LOW == "LOW"
HIGH == "HIGH"
RecvQueueLength == 1
DoorQueueLength == 1
ServoOpen == 180
ServoClosed == 0
ServoUnset == -1

\* Timestamps "HH:MM:SS" as <<h, m, s>>; the empty string is <<>>.
Times == {<<9, 0, 0>>, <<9, 0, 30>>}
EmptyTime == <<>>
NoData == [uid |-> NULL, time |-> EmptyTime]
AccessData == [uid : UIDs, time : Times]

VARIABLES
  head,          \* Employee* head
  heap,          \* the allocated Employee nodes: address -> node
  Remote_Door,   \* bool Remote_Door
  RecvQueue,     \* FreeRTOS queue of AccessData, length 1
  DoorQueue,     \* FreeRTOS queue of DoorState, length 1
  nrecv,         \* how many times dataReceived has run
  ciPC,          \* checkID: where the task is
  recvData,      \* checkID: its local AccessData
  total_time,    \* checkID: int total_time, <<n>> while in scope, <<>> outside
  dcPC,          \* Task_DoorController: where the task is
  currentState,  \* Task_DoorController: its local DoorState
  remoteRead,    \* Task_DoorController: what this poll's test read from Remote_Door
  buttonPin,     \* level of BUTTON_PIN (INPUT_PULLUP: LOW is pressed)
  servo          \* last angle written to Door_control

vars == <<head, heap, Remote_Door, RecvQueue, DoorQueue, nrecv, ciPC, recvData,
          total_time, dcPC, currentState, remoteRead, buttonPin, servo>>
registryVars == <<head, heap>>
identVars == <<RecvQueue, nrecv, ciPC, recvData, total_time>>
doorVars == <<DoorQueue, dcPC, currentState, remoteRead, buttonPin, servo>>

(* ------------------------------ registry ------------------------------- *)
\* Faulty variant: the search stops one node early (temp->next != NULL), so the last
\* node of the chain is never compared.
RECURSIVE Find_skipLast(_, _, _)
Find_skipLast(hp, temp, uid) ==
  IF temp = NULL THEN NULL
  ELSE IF hp[temp].next = NULL THEN NULL
  ELSE IF hp[temp].uid = uid THEN temp
  ELSE Find_skipLast(hp, hp[temp].next, uid)

\* The while loop of checkID: first node from temp on whose uid is uid, or NULL.
RECURSIVE Find(_, _, _)
Find(hp, temp, uid) ==
  IF temp = NULL THEN NULL
  ELSE IF hp[temp].uid = uid THEN temp
  ELSE Find(hp, hp[temp].next, uid)

\* The addresses of the chain from temp on, head first.
RECURSIVE Chain(_, _)
Chain(hp, temp) ==
  IF temp = NULL THEN <<>> ELSE <<temp>> \o Chain(hp, hp[temp].next)

\* What malloc may return: NULL, or a cell that is not allocated.  Cells are
\* interchangeable, so of the free cells the lowest stands for all of them.
MallocFrom(cells, hp) ==
  {NULL} \cup {a \in cells \ DOMAIN hp : \A b \in cells \ DOMAIN hp : a <= b}
MallocResults(hp) == MallocFrom(Addrs, hp)

\* What a node holds besides its link.
Rec(hp, a) ==
  [uid |-> hp[a].uid, entryTime |-> hp[a].entryTime,
   exitTime |-> hp[a].exitTime, isEntering |-> hp[a].isEntering]

\* The registry as the sequence of its records, head first.
View(hp, h) ==
  LET c == Chain(hp, h) IN [i \in 1..Len(c) |-> Rec(hp, c[i])]

NewEmployee(uid, time, next) ==
  [uid |-> uid, entryTime |-> time, exitTime |-> EmptyTime,
   isEntering |-> TRUE, next |-> next]

\* Faulty variant: the new node is linked behind the old head instead of in front.
addEmployee_append(h, hp, uid, time, newEmployee) ==
  IF newEmployee = NULL THEN [head |-> h, heap |-> hp]
  ELSE IF h = NULL
    THEN [head |-> newEmployee,
          heap |-> (newEmployee :> NewEmployee(uid, time, NULL)) @@ hp]
    ELSE [head |-> h,
          heap |-> (newEmployee :> NewEmployee(uid, time, hp[h].next))
                     @@ [hp EXCEPT ![h].next = newEmployee]]

\* addEmployee(&head, uid, time), newEmployee being what malloc returned.
addEmployee(h, hp, uid, time, newEmployee) ==
  IF newEmployee = NULL THEN [head |-> h, heap |-> hp]
  ELSE [head |-> newEmployee,
        heap |-> (newEmployee :> NewEmployee(uid, time, h)) @@ hp]

\* Faulty variant: the comparison of the walk is inverted (strcmp(...) == 0), so the walk
\* stops at the first node whose uid is NOT rfid.
RECURSIVE removeWalk_inverted(_, _, _, _)
removeWalk_inverted(hp, temp, prev, rfid) ==
  IF temp # NULL /\ hp[temp].uid = rfid
    THEN removeWalk_inverted(hp, hp[temp].next, temp, rfid)
    ELSE <<temp, prev>>

\* The while loop of removeEmployee: <<temp, prev>> when it ends.
RECURSIVE removeWalk(_, _, _, _)
removeWalk(hp, temp, prev, rfid) ==
  IF temp # NULL /\ hp[temp].uid # rfid
    THEN removeWalk(hp, hp[temp].next, temp, rfid)
    ELSE <<temp, prev>>

\* free(temp): the cell goes back to the allocator.
Free(hp, temp) == [a \in DOMAIN hp \ {temp} |-> hp[a]]

\* removeEmployee(&head, rfid)
removeEmployee(h, hp, rfid) ==
  LET w == removeWalk(hp, h, NULL, rfid)
      temp == w[1]
      prev == w[2]
  IN IF temp = NULL THEN [head |-> h, heap |-> hp]
     ELSE IF prev = NULL
       THEN [head |-> hp[temp].next, heap |-> Free(hp, temp)]
       ELSE [head |-> h,
             heap |-> Free([hp EXCEPT ![prev].next = hp[temp].next], temp)]

(* ------------------------------- queues -------------------------------- *)
\* Faulty variant: the ISR overwrites a full queue (xQueueOverwriteFromISR).
xQueueSendFromISR_overwrite(q, length, item) ==
  IF Len(q) < length THEN Append(q, item) ELSE Append(SubSeq(q, 1, Len(q) - 1), item)

\* xQueueSendFromISR: never blocks; a full queue is left as it is (errQUEUE_FULL).
xQueueSendFromISR(q, length, item) ==
  IF Len(q) < length THEN Append(q, item) ELSE q

\* Faulty variant: the send does not wait for room.
CanSend_always(q, length) == TRUE

\* xQueueSend(..., portMAX_DELAY) returns only once the queue has room.
CanSend(q, length) == Len(q) < length

\* xQueueReceive(..., portMAX_DELAY) returns only once the queue holds an item.
CanReceive(q) == Len(q) > 0

(* --------------------------- operator console -------------------------- *)
\* Lines the operator can type, as sequences of characters ("\r" before the
\* newline included); <<>> is an empty line.
Inputs == {<<"y">>, <<"Y">>, <<"n">>, <<"y", "\r">>, <<" ", "Y">>, <<"y", "e", "s">>,
           <<"\r">>, <<>>}
IsSpace(c) == c \in {" ", "\r", "\t", "\n"}

\* String::trim
RECURSIVE trim(_)
trim(s) ==
  IF s = <<>> THEN s
  ELSE IF IsSpace(Head(s)) THEN trim(Tail(s))
  ELSE IF IsSpace(s[Len(s)]) THEN trim(SubSeq(s, 1, Len(s) - 1))
  ELSE s

ToLower(c) == CASE c = "Y" -> "y" [] c = "N" -> "n" [] c = "E" -> "e"
                [] c = "S" -> "s" [] OTHER -> c

\* Faulty variant: only the first characters are compared, so "yes" equals "y".
equalsIgnoreCase_firstChar(a, b) ==
  /\ Len(a) > 0 /\ Len(b) > 0
  /\ ToLower(a[1]) = ToLower(b[1])

\* String::equalsIgnoreCase
equalsIgnoreCase(a, b) ==
  /\ Len(a) = Len(b)
  /\ \A i \in 1..Len(a) : ToLower(a[i]) = ToLower(b[i])

(* ------------------------------ timestamps ----------------------------- *)
\* Times of day used where the elapsed time is computed.
TimeSamples == {<<9, 0, 0>>, <<9, 0, 30>>, <<10, 0, 0>>, <<11, 30, 15>>,
                <<23, 59, 59>>, <<0, 0, 1>>}

DigitChars == <<"0", "1", "2", "3", "4", "5", "6", "7", "8", "9">>
IsDigit(c) == \E d \in 1..10 : DigitChars[d] = c
DigitValue(c) == (CHOOSE d \in 1..10 : DigitChars[d] = c) - 1

\* The decimal digits of n >= 0, most significant first.
RECURSIVE Decimal(_)
Decimal(n) ==
  IF n < 10 THEN <<DigitChars[n + 1]>>
  ELSE Decimal(n \div 10) \o <<DigitChars[(n % 10) + 1]>>

\* sprintf "%02d"
Format02d(n) == IF n < 10 THEN <<"0">> \o Decimal(n) ELSE Decimal(n)

\* sprintf(accessData.time, "%02d:%02d:%02d", hour, minute, second); the empty
\* string stays empty.
TimeString(t) ==
  IF t = EmptyTime THEN <<>>
  ELSE Format02d(t[1]) \o <<":">> \o Format02d(t[2]) \o <<":">> \o Format02d(t[3])

\* The leading run of digits of s read as a decimal number: <<value, rest>>.
RECURSIVE ScanDigits(_, _)
ScanDigits(s, acc) ==
  IF s # <<>> /\ IsDigit(Head(s))
    THEN ScanDigits(Tail(s), 10 * acc + DigitValue(Head(s)))
    ELSE <<acc, s>>

\* sscanf(s, "%d:%d:%d", ...): the numbers converted, in order; conversion stops
\* at the first field that does not start with a digit or at a missing ':'.
RECURSIVE Sscanf(_, _)
Sscanf(s, fields) ==
  IF fields = 0 \/ s = <<>> \/ ~IsDigit(Head(s)) THEN <<>>
  ELSE LET d == ScanDigits(s, 0)
           rest == d[2]
       IN <<d[1]>> \o (IF fields > 1 /\ rest # <<>> /\ Head(rest) = ":"
                         THEN Sscanf(Tail(rest), fields - 1)
                         ELSE <<>>)

\* What an int that was never assigned may hold.
UninitializedInts == {-1, 0, 1}

\* Faulty variant: the subtraction is the wrong way round.
calculateTotalTime_swapped(entry, exit) ==
  LET e == Sscanf(entry, 3)
      x == Sscanf(exit, 3)
  IN IF Len(e) = 3 /\ Len(x) = 3
       THEN {(e[1] * 3600 + e[2] * 60 + e[3]) - (x[1] * 3600 + x[2] * 60 + x[3])}
       ELSE UninitializedInts

\* calculateTotalTime(entry, exit): the values it can return.  With a string
\* that does not convert in full, h/m/s are read uninitialized.
calculateTotalTime(entry, exit) ==
  LET e == Sscanf(entry, 3)
      x == Sscanf(exit, 3)
  IN IF Len(e) = 3 /\ Len(x) = 3
       THEN {(x[1] * 3600 + x[2] * 60 + x[3]) - (e[1] * 3600 + e[2] * 60 + e[3])}
       ELSE UninitializedInts

\* calculateTotalTime(temp->entryTime, temp->exitTime) at line 195, on the
\* strings of every pair of times, evaluated once.
TotalTimes ==
  [entry \in TimeSamples, exit \in TimeSamples |->
     calculateTotalTime(TimeString(entry), TimeString(exit))]

(* ----------------------------- door logic ------------------------------ *)
\* Faulty variant: the CLOSE branch tests the button only.
NextDoorState_buttonOnly(state, buttonState, remote) ==
  IF state = CLOSE
    THEN IF buttonState = LOW THEN OPEN ELSE CLOSE
    ELSE IF state = OPEN
      THEN IF buttonState = LOW THEN CLOSE ELSE OPEN
      ELSE CLOSE

\* Faulty variant: the OPEN branch does not close while the remote flag is set.
NextDoorState_holdOpen(state, buttonState, remote) ==
  IF state = CLOSE
    THEN IF (buttonState = LOW) \/ remote THEN OPEN ELSE CLOSE
    ELSE IF state = OPEN
      THEN IF (buttonState = LOW) /\ ~remote THEN CLOSE ELSE OPEN
      ELSE CLOSE

\* Faulty variant: the button only opens; an open door stays open under it.
NextDoorState_openOnly(state, buttonState, remote) ==
  IF state = CLOSE
    THEN IF (buttonState = LOW) \/ remote THEN OPEN ELSE CLOSE
    ELSE OPEN

\* The if / else-if / else of Task_DoorController: the state after the test.
NextDoorState(state, buttonState, remote) ==
  IF state = CLOSE
    THEN IF (buttonState = LOW) \/ remote THEN OPEN ELSE CLOSE
    ELSE IF state = OPEN
      THEN IF buttonState = LOW THEN CLOSE ELSE OPEN
      ELSE CLOSE

\* Faulty variant: the two angles are exchanged.
ServoAngle_swapped(receivedState) ==
  IF receivedState = OPEN THEN ServoClosed ELSE ServoOpen

\* The angle Task_Door writes for a received state.
ServoAngle(receivedState) ==
  IF receivedState = OPEN THEN ServoOpen ELSE ServoClosed

(* ------------------------------- Init ---------------------------------- *)
Init ==
  /\ head = NULL
  /\ heap = <<>>
  /\ Remote_Door = FALSE
  /\ RecvQueue = <<>>
  /\ DoorQueue = <<>>
  /\ nrecv = 0
  /\ ciPC = "wait"
  /\ recvData = NoData
  /\ total_time = <<>>
  /\ dcPC = "poll"
  /\ currentState = CLOSE
  /\ remoteRead = FALSE
  /\ buttonPin \in {LOW, HIGH}
  /\ servo = ServoUnset

(* ------------------------ receive interrupt ---------------------------- *)
\* dataReceived: copy the payload and hand it to RecvQueue without blocking.
dataReceived(incomingData) ==
  /\ nrecv < MaxEvents
  /\ nrecv' = nrecv + 1
  /\ RecvQueue' = xQueueSendFromISR(RecvQueue, RecvQueueLength, incomingData)
  /\ UNCHANGED <<head, heap, Remote_Door, ciPC, recvData, total_time>>
  /\ UNCHANGED doorVars

(* ------------------------ Identification Task -------------------------- *)
\* Faulty variant: the event is copied but left in the queue (a peek).
CI_Receive_peek ==
  /\ ciPC = "wait"
  /\ CanReceive(RecvQueue)
  /\ recvData' = Head(RecvQueue)
  /\ ciPC' = "resolve"
  /\ UNCHANGED <<head, heap, Remote_Door, RecvQueue, nrecv, total_time>>
  /\ UNCHANGED doorVars

\* xQueueReceive(RecvQueue, &recvData, portMAX_DELAY)
CI_Receive ==
  /\ ciPC = "wait"
  /\ CanReceive(RecvQueue)
  /\ recvData' = Head(RecvQueue)
  /\ RecvQueue' = Tail(RecvQueue)
  /\ ciPC' = "resolve"
  /\ UNCHANGED <<head, heap, Remote_Door, nrecv, total_time>>
  /\ UNCHANGED doorVars

\* Faulty variant: on an exit the event time is copied into entryTime, not exitTime.
CI_Resolve_wrongField ==
  /\ ciPC = "resolve"
  /\ LET temp == Find(heap, head, recvData.uid) IN
       IF temp = NULL
         THEN /\ ciPC' = "enroll"
              /\ UNCHANGED <<head, heap, Remote_Door, total_time>>
         ELSE IF ~heap[temp].isEntering
           THEN /\ heap' = [heap EXCEPT ![temp].isEntering = TRUE,
                                         ![temp].entryTime = recvData.time]
                /\ Remote_Door' = TRUE
                /\ ciPC' = "wait"
                /\ UNCHANGED <<head, total_time>>
           ELSE /\ heap' = [heap EXCEPT ![temp].isEntering = FALSE,
                                         ![temp].entryTime = recvData.time]
                /\ \E t \in TotalTimes[heap[temp].entryTime, recvData.time] :
                     total_time' = <<t>>
                /\ ciPC' = "remove"
                /\ UNCHANGED <<head, Remote_Door>>
  /\ UNCHANGED <<RecvQueue, nrecv, recvData>>
  /\ UNCHANGED doorVars

\* Faulty variant: the flag is set on every resolution of a found UID.
CI_Resolve_flagOnExit ==
  /\ ciPC = "resolve"
  /\ LET temp == Find(heap, head, recvData.uid) IN
       IF temp = NULL
         THEN /\ ciPC' = "enroll"
              /\ UNCHANGED <<head, heap, Remote_Door, total_time>>
         ELSE IF ~heap[temp].isEntering
           THEN /\ heap' = [heap EXCEPT ![temp].isEntering = TRUE,
                                         ![temp].entryTime = recvData.time]
                /\ Remote_Door' = TRUE
                /\ ciPC' = "wait"
                /\ UNCHANGED <<head, total_time>>
           ELSE /\ heap' = [heap EXCEPT ![temp].isEntering = FALSE,
                                         ![temp].exitTime = recvData.time]
                /\ \E t \in TotalTimes[heap[temp].entryTime, recvData.time] :
                     total_time' = <<t>>
                /\ Remote_Door' = TRUE
                /\ ciPC' = "remove"
                /\ UNCHANGED head
  /\ UNCHANGED <<RecvQueue, nrecv, recvData>>
  /\ UNCHANGED doorVars

\* The search, and the found branch up to its prompt.
CI_Resolve ==
  /\ ciPC = "resolve"
  /\ LET temp == Find(heap, head, recvData.uid) IN
       IF temp = NULL
         THEN /\ ciPC' = "enroll"
              /\ UNCHANGED <<head, heap, Remote_Door, total_time>>
         ELSE IF ~heap[temp].isEntering
           THEN /\ heap' = [heap EXCEPT ![temp].isEntering = TRUE,
                                         ![temp].entryTime = recvData.time]
                /\ Remote_Door' = TRUE
                /\ ciPC' = "wait"
                /\ UNCHANGED <<head, total_time>>
           ELSE /\ heap' = [heap EXCEPT ![temp].isEntering = FALSE,
                                         ![temp].exitTime = recvData.time]
                /\ \E t \in TotalTimes[heap[temp].entryTime, recvData.time] :
                     total_time' = <<t>>
                /\ ciPC' = "remove"
                /\ UNCHANGED <<head, Remote_Door>>
  /\ UNCHANGED <<RecvQueue, nrecv, recvData>>
  /\ UNCHANGED doorVars

\* Faulty variant: the flag is set only when the record was created.
CI_EnrollAnswer_flagOnSuccess(line) ==
  /\ ciPC = "enroll"
  /\ LET input == trim(line) IN
       IF Len(input) = 0
         THEN UNCHANGED <<head, heap, Remote_Door, ciPC>>
         ELSE /\ ciPC' = "wait"
              /\ IF equalsIgnoreCase(input, <<"y">>)
                   THEN \E newEmployee \in MallocResults(heap) :
                          LET r == addEmployee(head, heap, recvData.uid,
                                               recvData.time, newEmployee)
                          IN /\ head' = r.head /\ heap' = r.heap
                             /\ Remote_Door' = (IF newEmployee = NULL
                                                  THEN Remote_Door ELSE TRUE)
                   ELSE UNCHANGED <<head, heap, Remote_Door>>
  /\ UNCHANGED <<RecvQueue, nrecv, recvData, total_time>>
  /\ UNCHANGED doorVars

\* One turn of the "Set Employee?" input loop with the line the operator typed.
CI_EnrollAnswer(line) ==
  /\ ciPC = "enroll"
  /\ LET input == trim(line) IN
       IF Len(input) = 0
         THEN UNCHANGED <<head, heap, Remote_Door, ciPC>>
         ELSE /\ ciPC' = "wait"
              /\ IF equalsIgnoreCase(input, <<"y">>)
                   THEN /\ \E newEmployee \in MallocResults(heap) :
                             LET r == addEmployee(head, heap, recvData.uid,
                                                  recvData.time, newEmployee)
                             IN head' = r.head /\ heap' = r.heap
                        /\ Remote_Door' = TRUE
                   ELSE UNCHANGED <<head, heap, Remote_Door>>
  /\ UNCHANGED <<RecvQueue, nrecv, recvData, total_time>>
  /\ UNCHANGED doorVars

\* One turn of the "Remove Employee?" input loop with the line the operator typed.
CI_RemoveAnswer(line) ==
  /\ ciPC = "remove"
  /\ LET input == trim(line) IN
       IF Len(input) = 0
         THEN UNCHANGED <<head, heap, ciPC, total_time>>
         ELSE /\ ciPC' = "wait"
              /\ total_time' = <<>>
              /\ IF equalsIgnoreCase(input, <<"y">>)
                   THEN LET r == removeEmployee(head, heap, recvData.uid)
                        IN head' = r.head /\ heap' = r.heap
                   ELSE UNCHANGED <<head, heap>>
  /\ UNCHANGED <<Remote_Door, RecvQueue, nrecv, recvData>>
  /\ UNCHANGED doorVars

(* ------------------------- Door State Machine -------------------------- *)
\* digitalRead and the transition test.  The flag is read only in CLOSE with the
\* button not pressed (|| short-circuits); the OPEN branch clears it on a press.
DC_Poll ==
  /\ dcPC = "poll"
  /\ LET buttonState == buttonPin
         reads == (currentState = CLOSE) /\ (buttonState # LOW)
     IN /\ currentState' = NextDoorState(currentState, buttonState, Remote_Door)
        /\ remoteRead' = (reads /\ Remote_Door)
        /\ Remote_Door' = IF currentState = OPEN /\ buttonState = LOW
                            THEN FALSE ELSE Remote_Door
  /\ dcPC' = "send"
  /\ UNCHANGED <<head, heap, DoorQueue, buttonPin, servo>>
  /\ UNCHANGED identVars

\* xQueueSend(DoorQueue, &currentState, portMAX_DELAY)
DC_Send ==
  /\ dcPC = "send"
  /\ CanSend(DoorQueue, DoorQueueLength)
  /\ DoorQueue' = Append(DoorQueue, currentState)
  /\ dcPC' = "clear"
  /\ UNCHANGED <<head, heap, Remote_Door, currentState, remoteRead, buttonPin, servo>>
  /\ UNCHANGED identVars

\* Faulty variant: the flag is cleared only when the transition test has read it.
DC_Clear_onlyIfRead ==
  /\ dcPC = "clear"
  /\ Remote_Door' = (IF remoteRead THEN FALSE ELSE Remote_Door)
  /\ dcPC' = "poll"
  /\ UNCHANGED <<head, heap, DoorQueue, currentState, remoteRead, buttonPin, servo>>
  /\ UNCHANGED identVars

\* Remote_Door = false; then the debounce delay.
DC_Clear ==
  /\ dcPC = "clear"
  /\ Remote_Door' = FALSE
  /\ dcPC' = "poll"
  /\ UNCHANGED <<head, heap, DoorQueue, currentState, remoteRead, buttonPin, servo>>
  /\ UNCHANGED identVars

Task_DoorController == DC_Poll \/ DC_Send \/ DC_Clear

(* ---------------------------- Actuator Task ---------------------------- *)
\* xQueueReceive(DoorQueue, &receivedState, portMAX_DELAY), then the servo write.
Task_Door ==
  /\ CanReceive(DoorQueue)
  /\ servo' = ServoAngle(Head(DoorQueue))
  /\ DoorQueue' = Tail(DoorQueue)
  /\ UNCHANGED <<head, heap, Remote_Door, dcPC, currentState, remoteRead, buttonPin>>
  /\ UNCHANGED identVars

(* ------------------------------ the button ----------------------------- *)
\* The physical button is pressed or released.
Button ==
  /\ buttonPin' = IF buttonPin = LOW THEN HIGH ELSE LOW
  /\ UNCHANGED <<head, heap, Remote_Door, DoorQueue, dcPC, currentState, remoteRead, servo>>
  /\ UNCHANGED identVars

(* ---------------------------- specification ---------------------------- *)
checkID ==
  \/ CI_Receive
  \/ CI_Resolve
  \/ \E line \in Inputs : CI_EnrollAnswer(line)
  \/ \E line \in Inputs : CI_RemoveAnswer(line)

Next ==
  \/ \E incomingData \in AccessData : dataReceived(incomingData)
  \/ checkID
  \/ Task_DoorController
  \/ Task_Door
  \/ Button

Spec == Init /\ [][Next]_vars

\* The operator types a line that is not blank at the open prompt.
OperatorAnswers ==
  \E line \in Inputs :
    Len(trim(line)) > 0 /\ (CI_EnrollAnswer(line) \/ CI_RemoveAnswer(line))

\* The three tasks have the same priority and each of them delays in every
\* round of its loop, so the scheduler runs each task that is ready; the
\* operator answers every prompt.  The radio and the button are not constrained.
\* The time of day of an event has no part in the control flow, so one time of
\* day stands for all of them where only progress is in question.
FairData == [uid : UIDs, time : {<<9, 0, 0>>}]

NextFair ==
  \/ \E incomingData \in FairData : dataReceived(incomingData)
  \/ checkID
  \/ Task_DoorController
  \/ Task_Door
  \/ Button

SpecFair ==
  /\ Init /\ [][NextFair]_vars
  /\ WF_vars(CI_Receive)
  /\ WF_vars(CI_Resolve)
  /\ WF_vars(OperatorAnswers)
  /\ WF_vars(Task_DoorController)
  /\ WF_vars(Task_Door)

\* The scheduler is fair to the two door tasks and nothing is assumed of the
\* operator: a prompt may stay unanswered for ever.
SpecStall ==
  /\ Init /\ [][NextFair]_vars
  /\ WF_vars(Task_DoorController)
  /\ WF_vars(Task_Door)

(* --------------------- the registry taken alone ------------------------ *)
\* add as checkID calls it: only for a UID the search did not find.
Reg_add(uid, time, newEmployee) ==
  /\ Find(heap, head, uid) = NULL
  /\ LET r == addEmployee(head, heap, uid, time, newEmployee)
     IN head' = r.head /\ heap' = r.heap
  /\ UNCHANGED <<Remote_Door>>
  /\ UNCHANGED identVars
  /\ UNCHANGED doorVars

\* remove with any UID, present or not.
Reg_remove(rfid) ==
  /\ LET r == removeEmployee(head, heap, rfid)
     IN head' = r.head /\ heap' = r.heap
  /\ UNCHANGED <<Remote_Door>>
  /\ UNCHANGED identVars
  /\ UNCHANGED doorVars

NextRegistry ==
  \/ \E uid \in RegistryUIDs, time \in Times :
       \E newEmployee \in MallocFrom(RegistryAddrs, heap) :
         Reg_add(uid, time, newEmployee)
  \/ \E rfid \in RegistryUIDs : Reg_remove(rfid)

SpecRegistry == Init /\ [][NextRegistry]_vars

(* ------------------- the elapsed time of one employee ------------------ *)
\* The receive callback and checkID alone, one UID scanned at the sampled times.
NextTime ==
  \/ \E incomingData \in [uid : {1}, time : TimeSamples] : dataReceived(incomingData)
  \/ checkID

SpecTime == Init /\ [][NextTime]_vars

(* =============================== claims ================================ *)
PollStep == dcPC = "poll" /\ dcPC' = "send"
SendStep == dcPC = "send" /\ dcPC' = "clear"
ClearStep == dcPC = "clear" /\ dcPC' = "poll"
DoorQueueFull == Len(DoorQueue) = DoorQueueLength
RecvQueueFull == Len(RecvQueue) = RecvQueueLength

\* C1: a Remote-Admit Flag that is set is never lost: whenever the flag goes from
\* true to false, the poll that clears it has read it as true in its transition
\* test.  (Stated as the claim states it; the code violates it.)
C1_FlagNeverLost ==
  [][(Remote_Door /\ ~Remote_Door') => remoteRead]_vars

\* C2: RecvQueue never holds more than one event; an invocation of dataReceived
\* that finds it full changes nothing but the count of invocations (the queue
\* keeps the first event); and what checkID receives is the event at the head.
C2_IngestionDropsWhenFull ==
  /\ [](Len(RecvQueue) <= RecvQueueLength)
  /\ [][(nrecv' # nrecv /\ RecvQueueFull)
          => /\ RecvQueue' = RecvQueue
             /\ UNCHANGED <<head, heap, Remote_Door, ciPC, recvData, total_time>>
             /\ UNCHANGED doorVars]_vars
  /\ [][(ciPC = "wait" /\ ciPC' # "wait")
          => (recvData' = Head(RecvQueue) /\ RecvQueue' = Tail(RecvQueue))]_vars

\* C2 witness: two events have arrived, checkID has received none, and the queue
\* holds one: the second was dropped.
C2_Witness ==
  nrecv = 2 /\ Len(RecvQueue) = 1 /\ ciPC = "wait" /\ recvData = NoData

\* C3: the registry holds at most one record per UID.
C3_OneRecordPerUID ==
  LET c == Chain(heap, head)
  IN \A i, j \in 1..Len(c) : heap[c[i]].uid = heap[c[j]].uid => i = j

\* C3 witness: an enrolled UID has been scanned again and was found (its record
\* was toggled to exiting) instead of being enrolled a second time.
C3_Witness ==
  /\ nrecv >= 2
  /\ head # NULL
  /\ ~heap[head].isEntering
  /\ Len(Chain(heap, head)) = 1

\* The operator has just affirmed the enrollment of recvData.uid and the
\* allocation succeeded.
AdmitStep == ciPC = "enroll" /\ ciPC' = "wait" /\ head' # head

\* C4: end-to-end admit.  The affirmed enrollment leaves exactly one record for
\* the UID, with isEntering, and sets the flag; and a flag set while the door is
\* CLOSE stays set until a poll has opened the door, so that the next poll
\* transitions CLOSE to OPEN.  (Stated as the claim states it; the code
\* violates it.)
C4_EndToEndAdmit ==
  /\ [][(AdmitStep /\ currentState = CLOSE)
          => /\ Remote_Door'
             /\ Len(SelectSeq(View(heap', head'),
                              LAMBDA e : e.uid = recvData.uid)) = 1
             /\ heap'[Find(heap', head', recvData.uid)].isEntering]_vars
  /\ [][(Remote_Door /\ currentState = CLOSE)
          => (Remote_Door' \/ currentState' = OPEN)]_vars

\* C5: the door starts in CLOSE; a poll in CLOSE moves to OPEN exactly when the
\* button is pressed or the flag is set at that poll; and the state the poll
\* ended in is the state pushed to DoorQueue.
C5_ClosePoll ==
  /\ currentState = CLOSE
  /\ [][(PollStep /\ currentState = CLOSE)
          => currentState' = (IF buttonPin = LOW \/ Remote_Door THEN OPEN ELSE CLOSE)]_vars
  /\ [][SendStep
          => (DoorQueue' = Append(DoorQueue, currentState) /\ UNCHANGED currentState)]_vars

\* C5 witness: a poll in CLOSE with the button released read the flag as set and
\* OPEN was pushed.
C5_Witness ==
  dcPC = "clear" /\ remoteRead /\ currentState = OPEN /\ DoorQueue = <<OPEN>>

\* C6: a poll in OPEN moves to CLOSE exactly when the button is pressed, whatever
\* the flag; the state it ended in is the one pushed; and the flag is false when
\* the poll cycle has completed.
C6_OpenPoll ==
  /\ [][(PollStep /\ currentState = OPEN)
          => currentState' = (IF buttonPin = LOW THEN CLOSE ELSE OPEN)]_vars
  /\ [][(dcPC = "send" /\ dcPC' # dcPC)
          => (DoorQueue' = Append(DoorQueue, currentState) /\ UNCHANGED currentState)]_vars
  /\ [][ClearStep => ~Remote_Door']_vars

\* C6 witness: the last pushed state, OPEN, has been applied, the next poll has
\* been taken in OPEN and left the door OPEN, and the flag is set.
C6_Witness ==
  /\ servo = ServoOpen
  /\ DoorQueue = <<>>
  /\ dcPC = "send"
  /\ currentState = OPEN
  /\ Remote_Door

C9_AddAtHead ==
  \A u \in RegistryUIDs, t \in Times :
    Find(heap, head, u) = NULL =>
      \A newEmployee \in RegistryAddrs \ DOMAIN heap :
        LET r == addEmployee(head, heap, u, t, newEmployee)
            new == [uid |-> u, entryTime |-> t, exitTime |-> EmptyTime,
                    isEntering |-> TRUE]
        IN /\ Find(r.heap, r.head, u) = r.head
           /\ r.head = newEmployee
           /\ View(r.heap, r.head) = <<new>> \o View(heap, head)

\* C9 witness: a registry of two records to which a third can be added.
C9_Witness ==
  /\ Len(Chain(heap, head)) = 2
  /\ \E u \in RegistryUIDs, newEmployee \in RegistryAddrs \ DOMAIN heap :
       /\ Find(heap, head, u) = NULL
       /\ Len(Chain(addEmployee(head, heap, u, <<9, 0, 0>>, newEmployee).heap,
                    newEmployee)) = 3

\* C10: for every UID u, after remove(u) the search does not find u; the other
\* records are all there in their order; the removed cell is released and no
\* other; and with u absent the registry is unchanged.
C10_Remove ==
  \A u \in RegistryUIDs :
    LET r == removeEmployee(head, heap, u)
        c == Chain(r.heap, r.head)
    IN /\ Find(r.heap, r.head, u) = NULL
       /\ View(r.heap, r.head) = SelectSeq(View(heap, head), LAMBDA e : e.uid # u)
       /\ DOMAIN r.heap = {c[i] : i \in 1..Len(c)}
       /\ Find(heap, head, u) = NULL => (r.head = head /\ r.heap = heap)

\* C10 witness: a chain of three records from which the head, the middle and the
\* tail record can each be removed, leaving the other two.
C10_Witness ==
  LET c == Chain(heap, head)
  IN /\ Len(c) = 3
     /\ \A i \in 1..3 :
          LET r == removeEmployee(head, heap, heap[c[i]].uid)
          IN Chain(r.heap, r.head) = SelectSeq(c, LAMBDA a : a # c[i])

\* Seconds since midnight of the time <<h, m, s>>.
Seconds(t) == t[1] * 3600 + t[2] * 60 + t[3]

\* C14: the elapsed time computed at an exit is exactly the exit time's seconds
\* of the day minus the entry time's, negative when the exit precedes the entry;
\* 09:00:00 to 09:00:30 gives 30 and 10:00:00 to 11:30:15 gives 5415.
C14_ExactSeconds ==
  /\ ciPC = "remove" =>
       LET temp == Find(heap, head, recvData.uid)
       IN total_time = <<Seconds(heap[temp].exitTime) - Seconds(heap[temp].entryTime)>>
  /\ calculateTotalTime(TimeString(<<9, 0, 0>>), TimeString(<<9, 0, 30>>)) = {30}
  /\ calculateTotalTime(TimeString(<<10, 0, 0>>), TimeString(<<11, 30, 15>>)) = {5415}

\* C14 witness: an exit at 00:00:01 after an entry at 23:59:59 has been
\* resolved and the computed time is negative.
C14_Witness ==
  /\ ciPC = "remove"
  /\ total_time = <<-86398>>
  /\ heap[head].entryTime = <<23, 59, 59>>
  /\ heap[head].exitTime = <<0, 0, 1>>

\* checkID resolves recvData.uid, which the search finds.
ResolveFoundStep ==
  ciPC = "resolve" /\ ciPC' # "resolve" /\ Find(heap, head, recvData.uid) # NULL

\* C11: a resolution of a UID that is in the registry flips isEntering of its
\* record and of no other; when isEntering becomes false exitTime is set to the
\* event time; when it becomes true entryTime is set to the event time and
\* exitTime is left as it was; and exitTime is empty in a new record and changes
\* only in a resolution that makes isEntering false.
C11_Toggle ==
  /\ [][ResolveFoundStep =>
          LET temp == Find(heap, head, recvData.uid)
          IN /\ heap'[temp].isEntering = ~heap[temp].isEntering
             /\ ~heap'[temp].isEntering => heap'[temp].exitTime = recvData.time
             /\ heap'[temp].isEntering =>
                  /\ heap'[temp].entryTime = recvData.time
                  /\ heap'[temp].exitTime = heap[temp].exitTime
             /\ \A a \in DOMAIN heap \ {temp} : heap'[a] = heap[a]
             /\ head' = head /\ DOMAIN heap' = DOMAIN heap]_vars
  /\ [][\A a \in DOMAIN heap' :
          IF a \notin DOMAIN heap
            THEN heap'[a].exitTime = EmptyTime
            ELSE heap'[a].exitTime # heap[a].exitTime =>
                   /\ ResolveFoundStep
                   /\ a = Find(heap, head, recvData.uid)
                   /\ ~heap'[a].isEntering]_vars

\* C11 witness: a record has been resolved twice, as an exit and then as an
\* entry at another time: isEntering is true again, exitTime is still the exit's.
C11_Witness ==
  /\ ciPC = "wait"
  /\ head # NULL
  /\ heap[head].isEntering
  /\ heap[head].exitTime = <<9, 0, 0>>
  /\ heap[head].entryTime = <<9, 0, 30>>

\* The typed line is the answer "y": y or Y between white space.
AnswersYes(line) == trim(line) \in {<<"y">>, <<"Y">>}

\* A step of the receive callback, of the door tasks or of the button.
OtherStep ==
  \/ \E incomingData \in AccessData : dataReceived(incomingData)
  \/ Task_DoorController
  \/ Task_Door
  \/ Button

\* C12: the registry changes only in steps of checkID, never in a step of the
\* receive callback, of Task_DoorController, of Task_Door or of the button; a
\* record is created only by an answer "y" to the enroll prompt, for a UID the
\* search did not find; a record is destroyed only by an answer "y" to the
\* remove prompt, and it is the record of the UID just resolved as an exit; an
\* answer other than "y" leaves the registry as it was.
C12_RegistryFrame ==
  /\ [][registryVars' # registryVars => checkID /\ ~OtherStep]_vars
  /\ [][DOMAIN heap' # DOMAIN heap =>
          \/ /\ ciPC = "enroll"
             /\ Find(heap, head, recvData.uid) = NULL
             /\ \E line \in Inputs : AnswersYes(line) /\ CI_EnrollAnswer(line)
             /\ \E a \in Addrs \ DOMAIN heap :
                  /\ DOMAIN heap' = DOMAIN heap \cup {a}
                  /\ heap'[a].uid = recvData.uid
          \/ /\ ciPC = "remove"
             /\ \E line \in Inputs : AnswersYes(line) /\ CI_RemoveAnswer(line)
             /\ LET temp == Find(heap, head, recvData.uid)
                IN /\ temp # NULL
                   /\ ~heap[temp].isEntering
                   /\ heap[temp].exitTime = recvData.time
                   /\ DOMAIN heap' = DOMAIN heap \ {temp}]_vars
  /\ [][registryVars' # registryVars =>
          \A line \in Inputs :
            ~AnswersYes(line) => ~(CI_EnrollAnswer(line) \/ CI_RemoveAnswer(line))]_vars

\* C12 witness: two records were enrolled and the older one was removed on its
\* exit: the first cell is free again while the second still holds a record.
C12_Witness ==
  /\ ciPC = "wait"
  /\ DOMAIN heap = {2}
  /\ head = 2
  /\ recvData.uid # heap[2].uid

\* checkID takes an event from RecvQueue.
ConsumeStep == ciPC = "wait" /\ ciPC' = "resolve"

\* C13: checkID starts handling an event only by receiving it, the receive
\* takes the event out of RecvQueue, so that it cannot be received again, and
\* recvData is that event until its handling is over; every event that is in
\* RecvQueue is eventually the one being handled, and every handling ends.
C13_ConsumedOnce ==
  /\ [][ciPC' = "resolve" /\ ciPC # "resolve" =>
          /\ ConsumeStep
          /\ RecvQueue # <<>>
          /\ recvData' = Head(RecvQueue)
          /\ RecvQueue' = Tail(RecvQueue)]_vars
  /\ [][ciPC # "wait" => recvData' = recvData /\ ~ConsumeStep]_vars
  /\ \A d \in FairData :
       (RecvQueue = <<d>>) ~> (ciPC = "resolve" /\ recvData = d)
  /\ (ciPC # "wait") ~> (ciPC = "wait")

\* C13 witness: three events were accepted one after the other and the third
\* has been handled to its end; it was an exit whose record was removed.
C13_Witness ==
  /\ nrecv = 3
  /\ RecvQueue = <<>>
  /\ ciPC = "wait"
  /\ DOMAIN heap = {2}
  /\ recvData.uid # heap[2].uid

\* C15: a round of Task_DoorController is the transition test, then the push of
\* currentState, then the clearing of the flag, in this order whatever the test
\* decided; the flag is false when the round ends; the flag is read, and
\* currentState changed, by the transition test only, once in a round; and a
\* round that has made its test goes on to its push and to its clearing.
C15_PollCycle ==
  /\ [][dcPC' # dcPC => PollStep \/ SendStep \/ ClearStep]_vars
  /\ [][SendStep => DoorQueue' = Append(DoorQueue, currentState)]_vars
  /\ [][ClearStep => ~Remote_Door' /\ DoorQueue' = DoorQueue]_vars
  /\ [][(remoteRead' # remoteRead \/ currentState' # currentState) => PollStep]_vars
  /\ [][(Remote_Door /\ ~Remote_Door') => PollStep \/ ClearStep]_vars
  /\ (dcPC = "send") ~> (dcPC = "clear")
  /\ (dcPC = "clear") ~> (dcPC = "poll" /\ ~Remote_Door)

\* C15 witness: CLOSE was pushed and applied, the next round made no transition
\* and pushed CLOSE again, and it has cleared the flag.
C15_Witness ==
  /\ dcPC = "poll"
  /\ currentState = CLOSE
  /\ servo = ServoClosed
  /\ DoorQueue = <<CLOSE>>
  /\ ~Remote_Door
  /\ ~remoteRead

\* The operator affirms the enrollment and malloc returns NULL.
AllocFailStep ==
  /\ ciPC = "enroll"
  /\ registryVars' = registryVars
  /\ \E line \in Inputs : AnswersYes(line) /\ CI_EnrollAnswer(line)

\* C16: an affirmed enrollment can always meet a failing allocation; the step
\* then leaves head and heap as they were, so that the search for the UID still
\* finds nothing, it sets the flag all the same, and checkID is back at its
\* receive, which takes the next event as soon as there is one.
C16_AllocationFailure ==
  /\ [](ciPC = "enroll" =>
          ENABLED (CI_EnrollAnswer(<<"y">>) /\ UNCHANGED registryVars))
  /\ [][AllocFailStep =>
          /\ Find(heap', head', recvData.uid) = NULL
          /\ View(heap', head') = View(heap, head)
          /\ Remote_Door'
          /\ ciPC' = "wait"]_vars
  /\ []((ciPC = "wait" /\ RecvQueue # <<>>) => ENABLED CI_Receive)

\* C16 witness: the only event so far was answered "y", no record exists, the
\* flag is set and checkID waits for the next event.
C16_Witness ==
  /\ nrecv = 1
  /\ ciPC = "wait"
  /\ recvData.uid \in UIDs
  /\ head = NULL
  /\ heap = <<>>
  /\ Remote_Door

\* The operator affirms the enrollment.
AffirmedEnrollStep ==
  ciPC = "enroll" /\ \E line \in Inputs : AnswersYes(line) /\ CI_EnrollAnswer(line)

\* A found UID is resolved and its record becomes entering.
BecomesEnteringStep ==
  /\ ResolveFoundStep
  /\ heap'[Find(heap, head, recvData.uid)].isEntering

\* C17: the flag goes from false to true only in a step of checkID that is an
\* affirmed enrollment or the resolution of a found UID to entering, and each
\* of these two steps leaves the flag true; an enroll prompt answered otherwise
\* leaves the registry and the flag as they were; and neither the resolution of
\* an exit nor any answer to the remove prompt changes the flag.
C17_FlagSetters ==
  /\ [][(~Remote_Door /\ Remote_Door') =>
          /\ checkID /\ ~OtherStep
          /\ AffirmedEnrollStep \/ BecomesEnteringStep]_vars
  /\ [][(AffirmedEnrollStep \/ BecomesEnteringStep) => Remote_Door']_vars
  /\ [][(ciPC = "enroll" /\ ciPC' = "wait" /\ ~AffirmedEnrollStep)
          => UNCHANGED <<head, heap, Remote_Door>>]_vars
  /\ [][((ResolveFoundStep /\ ~BecomesEnteringStep)
           \/ (ciPC = "remove" /\ ciPC' # ciPC))
          => Remote_Door' = Remote_Door]_vars

\* C17 witness: the flag of the enrollment was cleared by a poll, then the
\* record was resolved as an exit and the operator kept it: the flag is false.
C17_Witness ==
  /\ nrecv = 2
  /\ ciPC = "wait"
  /\ ~Remote_Door
  /\ head # NULL
  /\ heap[head].uid = recvData.uid
  /\ ~heap[head].isEntering
  /\ heap[head].exitTime = recvData.time
  /\ dcPC = "poll" /\ currentState = OPEN /\ DoorQueue = <<>>

\* checkID is in one of its two input loops.
PromptOpen == ciPC \in {"enroll", "remove"}

\* C18: while a prompt stays open no step is a step of checkID that changes
\* anything: recvData, the registry and RecvQueue's head stay, the flag is not
\* set; RecvQueue changes only by taking one event when it is empty, so it
\* holds at most one and an event that finds it full is dropped; and with the
\* prompt never answered the door tasks still run: Task_DoorController or
\* Task_Door can always take a step, every round of Task_DoorController comes
\* back to its poll and every pushed state is taken by Task_Door.
C18_PromptStall ==
  /\ [][(PromptOpen /\ ciPC' = ciPC) =>
          /\ ~checkID
          /\ recvData' = recvData
          /\ UNCHANGED registryVars
          /\ Remote_Door' => Remote_Door
          /\ \/ RecvQueue' = RecvQueue
             \/ RecvQueue = <<>> /\ Len(RecvQueue') = 1]_vars
  /\ [](PromptOpen => Len(RecvQueue) <= 1)
  /\ [](PromptOpen => ENABLED (Task_DoorController \/ Task_Door))
  /\ (dcPC # "poll") ~> (dcPC = "poll")
  /\ (DoorQueue # <<>>) ~> (DoorQueue = <<>>)

\* C18 witness: at an open enroll prompt three events have arrived, one of them
\* is being handled and one is in RecvQueue, and the door tasks have gone
\* through several rounds: OPEN was applied and CLOSE is pushed.
C18_Witness ==
  /\ ciPC = "enroll"
  /\ nrecv = 3
  /\ Len(RecvQueue) = 1
  /\ servo = ServoOpen
  /\ DoorQueue = <<CLOSE>>
  /\ dcPC = "clear"

\* C19: every poll that reads the button pressed changes the door state, from
\* CLOSE to OPEN and from OPEN to CLOSE, whatever the button was at the poll
\* before, and the state after the poll is the one pushed next: polls that find
\* the button pressed one after the other push alternating states.
C19_LevelSensitive ==
  /\ [][(PollStep /\ buttonPin = LOW) =>
          /\ currentState' # currentState
          /\ currentState' = (IF currentState = CLOSE THEN OPEN ELSE CLOSE)]_vars
  /\ [][(dcPC = "send" /\ DoorQueue' # DoorQueue /\ Len(DoorQueue') = 1) =>
          DoorQueue' = <<currentState>>]_vars

\* C19 witness: no event has arrived, the button is pressed, OPEN was applied
\* and the poll after it has pushed CLOSE.
C19_Witness ==
  /\ nrecv = 0
  /\ buttonPin = LOW
  /\ servo = ServoOpen
  /\ DoorQueue = <<CLOSE>>
  /\ currentState = CLOSE
  /\ dcPC = "clear"

\* C20: the two door tasks are never both unable to step; a state that is in
\* DoorQueue is eventually applied, the servo going to 180 for OPEN and to 0 for
\* CLOSE; Task_DoorController waiting at its push eventually pushes; and the
\* servo is written only with the angle of the state taken from DoorQueue, the
\* queue holding one state at a time, so the states are applied one by one in
\* the order of their pushes.
C20_ActuationProgress ==
  /\ [](ENABLED (Task_DoorController \/ Task_Door))
  /\ \A st \in {OPEN, CLOSE} :
       (DoorQueue = <<st>>) ~>
         (DoorQueue = <<>> /\ servo = (IF st = OPEN THEN ServoOpen ELSE ServoClosed))
  /\ (dcPC = "send") ~> (dcPC = "clear" /\ DoorQueue = <<currentState>>)
  /\ [][servo' # servo =>
          /\ DoorQueue # <<>>
          /\ DoorQueue' = Tail(DoorQueue)
          /\ servo' = (IF Head(DoorQueue) = OPEN THEN ServoOpen ELSE ServoClosed)]_vars
  /\ [][(DoorQueue # <<>> /\ DoorQueue' # DoorQueue) =>
          servo' = (IF Head(DoorQueue) = OPEN THEN ServoOpen ELSE ServoClosed)]_vars

\* C20 witness: CLOSE was applied, OPEN is in DoorQueue and not yet taken, and
\* Task_DoorController waits at its push with CLOSE.
C20_Witness ==
  /\ servo = ServoClosed
  /\ DoorQueue = <<OPEN>>
  /\ dcPC = "send"
  /\ currentState = CLOSE
  /\ ~ENABLED Task_DoorController

====
